---- MODULE Spec2Model ----
(***************************************************************************)
(* Model of src/main.cpp: the OAuth2 token cache (getAccessToken), the     *)
(* generation pipeline (queryGemini / queryShopkeeper and the routes of    *)
(* main), the response extractor and adjustWeight.                         *)
(*                                                                         *)
(* Strings that the code inspects character by character (the Weight       *)
(* field) are sequences of one-character strings.  A raw model text is a   *)
(* sequence of lexical tokens: "{", "}", ",", "W:" (the key "Weight" and   *)
(* its colon), "s1" (the string literal "1 lb."), "s2" (the string literal *)
(* "2 lb.") and "x" (any character of prose).                              *)
(***************************************************************************)
EXTENDS Integers, Sequences, FiniteSets, TLC

VARIABLES
    mode,           \* "server" (app.run) or "cli" (argv[1] == "--cli")
    clock,          \* Clock::now(), in seconds
    cached_token,   \* static std::string cached_token
    token_expiry,   \* static Clock::time_point token_expiry, in seconds
    token_mutex,    \* static std::mutex token_mutex: 0 = free, else the owner
    pc,             \* per thread: position in the handler
    route,          \* per thread: the entry point being served
    now,            \* per thread: local `now` of getAccessToken
    refreshed,      \* per thread: this getAccessToken call took the refresh branch
    callState,      \* per thread: "expired" when the cache was empty or inside
                    \*   the margin as the thread called getAccessToken,
                    \*   "overlapped" once another such caller has called
                    \*   refreshTokenWithJwt while this one was blocked on
                    \*   token_mutex, "fresh" otherwise
    entry,          \* per thread: <<cached_token, token_expiry>> when the lock was taken
    tokenPosts,     \* per thread: token-endpoint POSTs issued for this request
    genPosts,       \* per thread: generation POSTs issued for this request
    extractorRuns,  \* per thread: times the extractor (step 5) ran for this request
    adjusts,        \* per thread: times adjustWeight ran for this request
    extracted,      \* per thread: what queryGemini / queryShopkeeper returned
    reply,          \* per thread: what the caller receives
    requests,       \* requests accepted so far
    raw,            \* input of the extractor (pure-function specification)
    ext,            \* its outcome
    wIn,            \* input of adjustWeight (pure-function specification)
    wOut,           \* its result
    gearIn,         \* `in` of queryGemini (pure-function specification)
    prompt          \* the prompt it composes, as a sequence of text fragments

vars == <<mode, clock, cached_token, token_expiry, token_mutex, pc, route, now,
          refreshed, callState, entry, tokenPosts,
          genPosts, extractorRuns, adjusts, extracted, reply, requests,
          raw, ext, wIn, wOut, gearIn, prompt>>

pureVars == <<raw, ext, wIn, wOut, gearIn, prompt>>

(***************************************************************************)
(* Bounds of the model.                                                    *)
(***************************************************************************)
NumThreads == 2
MaxRequests == 2
MaxClock == 60
MaxLen == 4
MaxTokens == 5

Threads == 1..NumThreads

\* Seconds the clock may advance in one step.
Durations == {60}

\* expires_in values the token endpoint may report.
ExpiresIn == {30, 60, 120}

\* access_token values the token endpoint may report.
Tokens == {"tokA", "tokB"}


(***************************************************************************)
(* JSON values.  A value is [type, s]: s holds the characters of a string, *)
(* the tokens of a nested object or of the envelope's text, and is empty   *)
(* otherwise.  An object is a record of its fields; a field that is not    *)
(* present holds Absent.                                                   *)
(***************************************************************************)
Absent == [type |-> "absent", s |-> <<>>]
Str(chars) == [type |-> "string", s |-> chars]
Num == [type |-> "number", s |-> <<>>]
NullObj == [Weight |-> Absent, Name |-> Absent, candidates |-> Absent]

\* The exception a function throws: e.what() split into its parts.
NoErr == [what |-> "", code |-> 0, text |-> ""]
Err(what, code, text) == [what |-> what, code |-> code, text |-> text]

(***************************************************************************)
(* std::string helpers (1-based; 0 stands for npos).                       *)
(***************************************************************************)
WS == {" ", "\t", "\r", "\n"}

find(s, c) ==
    IF \E i \in 1..Len(s) : s[i] = c
    THEN CHOOSE i \in 1..Len(s) : s[i] = c /\ \A j \in 1..(i-1) : s[j] # c
    ELSE 0

rfind(s, c) ==
    IF \E i \in 1..Len(s) : s[i] = c
    THEN CHOOSE i \in 1..Len(s) : s[i] = c /\ \A j \in (i+1)..Len(s) : s[j] # c
    ELSE 0

trim(s) ==
    LET b == IF \E i \in 1..Len(s) : s[i] \notin WS
             THEN CHOOSE i \in 1..Len(s) :
                      s[i] \notin WS /\ \A j \in 1..(i-1) : s[j] \in WS
             ELSE 0
        e == IF \E i \in 1..Len(s) : s[i] \notin WS
             THEN CHOOSE i \in 1..Len(s) :
                      s[i] \notin WS /\ \A j \in (i+1)..Len(s) : s[j] \in WS
             ELSE 0
    IN  IF b = 0 THEN <<>> ELSE SubSeq(s, b, e)

(***************************************************************************)
(* adjustWeight.                                                           *)
(***************************************************************************)
lb == <<"l", "b", ".">>
lbs == <<"l", "b", "s", ".">>

\* adjustWeight without the trim of line 367.
adjustWeightUntrimmed(out) ==
    IF out.Weight.type # "string" THEN out
    ELSE LET w == out.Weight.s
             pos == rfind(w, " ")
         IN  IF pos = 0 THEN out
             ELSE LET numericPart == trim(SubSeq(w, 1, pos - 1))
                      unit == IF numericPart = <<"1">> THEN lb ELSE lbs
                  IN  [out EXCEPT !.Weight = Str(numericPart \o <<" ">> \o unit)]

adjustWeight(out) ==
    IF out.Weight.type # "string" THEN out
    ELSE LET w == trim(out.Weight.s)
             pos == rfind(w, " ")
         IN  IF pos = 0 THEN out
             ELSE LET numericPart == trim(SubSeq(w, 1, pos - 1))
                      unit == IF numericPart = <<"1">> THEN lb ELSE lbs
                  IN  [out EXCEPT !.Weight = Str(numericPart \o <<" ">> \o unit)]

(***************************************************************************)
(* json::parse on a token sequence.  The grammar is                        *)
(*     value  ::= "s1" | "s2" | object                                     *)
(*     object ::= "{" "}" | "{" member ("," member)* "}"                   *)
(*     member ::= "W:" value                                               *)
(* ValueEnd(s, i) is the index after the value that starts at i, 0 when no *)
(* value starts there.                                                     *)
(***************************************************************************)
Alphabet == {"{", "}", ",", "W:", "s1", "s2", "x"}

StringOf(tok) ==
    IF tok = "s1" THEN <<"1", " ", "l", "b", ".">>
                  ELSE <<"2", " ", "l", "b", ".">>

RECURSIVE ValueEnd(_, _)
RECURSIVE MembersEnd(_, _)

MembersEnd(s, i) ==
    IF i > Len(s) \/ s[i] # "W:" THEN 0
    ELSE LET v == ValueEnd(s, i + 1)
         IN  IF v = 0 \/ v > Len(s) THEN 0
             ELSE IF s[v] = "," THEN MembersEnd(s, v + 1)
             ELSE IF s[v] = "}" THEN v + 1
             ELSE 0

ValueEnd(s, i) ==
    IF i > Len(s) THEN 0
    ELSE IF s[i] \in {"s1", "s2"} THEN i + 1
    ELSE IF s[i] = "{"
         THEN IF i + 1 <= Len(s) /\ s[i + 1] = "}" THEN i + 2
              ELSE MembersEnd(s, i + 1)
    ELSE 0

\* json::parse accepts s: one value and nothing after it.
accepts(s) == ValueEnd(s, 1) = Len(s) + 1

\* The value that starts at i (i starts a value).
valueAt(s, i) ==
    IF s[i] \in {"s1", "s2"} THEN Str(StringOf(s[i]))
    ELSE [type |-> "object", s |-> SubSeq(s, i, ValueEnd(s, i) - 1)]

\* The Weight member of the object s (s is accepted and starts with "{"):
\* with duplicate keys the last one is kept.
RECURSIVE lastWeight(_, _, _)
lastWeight(s, i, acc) ==
    IF s[i] = "}" THEN acc
    ELSE LET v == ValueEnd(s, i + 1)
         IN  IF s[v] = "," THEN lastWeight(s, v + 1, valueAt(s, i + 1))
             ELSE valueAt(s, i + 1)

parse(s) == [NullObj EXCEPT !.Weight = lastWeight(s, 2, Absent)]

(***************************************************************************)
(* Step 5 of queryGemini / queryShopkeeper, after `raw` has been read from *)
(* the envelope `full`.                                                    *)
(***************************************************************************)
Envelope(text) ==
    [NullObj EXCEPT !.candidates = [type |-> "array", s |-> text]]

\* Step 5 with find in place of rfind for "}".
extractFirstClose(text) ==
    LET start == find(text, "{")
        end == find(text, "}")
    IN  IF start = 0 \/ end = 0 \/ end <= start
        THEN [kind |-> "fallback", obj |-> Envelope(text)]
        ELSE LET jsonText == SubSeq(text, start, end)
             IN  IF accepts(jsonText)
                 THEN [kind |-> "parsed", obj |-> parse(jsonText)]
                 ELSE [kind |-> "error", obj |-> NullObj]

extract(text) ==
    LET start == find(text, "{")
        end == rfind(text, "}")
    IN  IF start = 0 \/ end = 0 \/ end <= start
        THEN [kind |-> "fallback", obj |-> Envelope(text)]
        ELSE LET jsonText == SubSeq(text, start, end)
             IN  IF accepts(jsonText)
                 THEN [kind |-> "parsed", obj |-> parse(jsonText)]
                 ELSE [kind |-> "error", obj |-> NullObj]


(***************************************************************************)
(* The entry points of main and what each hands to its caller.  In server  *)
(* mode `status` is the HTTP status of the crow::response; in CLI mode it  *)
(* is the exit code of the process.                                        *)
(***************************************************************************)
ServerRoutes == {"gear", "gearRandom", "shopkeeper", "shopkeeperRandom"}
ItemRoutes == {"gear", "gearRandom", "cli"}
BodyRoutes == {"gear", "shopkeeper", "cli"}

NoReply == [status |-> -1, error |-> "", message |-> NoErr, body |-> NullObj]

ErrorReply(r, e) ==
    IF r = "cli"
    THEN [status |-> 2, error |-> "", message |-> e, body |-> NullObj]
    ELSE [status |-> 500, error |-> "ProcessingFailed", message |-> e,
          body |-> NullObj]

OkReply(r, out) ==
    [status |-> IF r = "cli" THEN 0 ELSE 200, error |-> "", message |-> NoErr,
     body |-> out]

\* The handlers that call adjustWeight(out) between the query and out.dump().
callsAdjustWeight(r) == r \in {"gear", "gearRandom"}

\* The name the query function of a route gives its errors.
upstreamWhat(r) ==
    IF r \in {"shopkeeper", "shopkeeperRandom"}
    THEN "Shopkeeper Vertex AI HTTP" ELSE "Vertex AI HTTP"

transportWhat(r) ==
    IF r \in {"shopkeeper", "shopkeeperRandom"}
    THEN "Shopkeeper HTTP POST failed" ELSE "HTTP POST failed"

(***************************************************************************)
(* Conditions of the code.                                                 *)
(***************************************************************************)
\* The condition with > in place of >=.
needsRefreshStrict(tok, n, expiry) == tok = "" \/ n + 60 > expiry

\* The condition without the one-minute margin.
needsRefreshNoMargin(tok, n, expiry) == tok = "" \/ n >= expiry

\* getAccessToken: cached_token.empty() || now + minutes(1) >= token_expiry
needsRefresh(tok, n, expiry) == tok = "" \/ n + 60 >= expiry

tokenStatusOk(code) == code = 200

\* The status check with > 300 in place of >= 300.
genStatusOkWide(code) == ~(code < 200 \/ code > 300)

\* queryGemini / queryShopkeeper: !(status_code < 200 || status_code >= 300)
genStatusOk(code) == ~(code < 200 \/ code >= 300)

\* Raw model texts the generation endpoint answers with in the pipeline.
GenTexts ==
    { <<"x">>,
      <<"{", "}">>,
      <<"{", "W:", "s1", "}">>,
      <<"x", "{", "W:", "s2", "}", "x">>,
      <<"{", "x", "}">> }

(***************************************************************************)
(* What the two endpoints may answer.  error is cpr's r.error, code the    *)
(* status code, body the kind of text received.  A token response whose    *)
(* body is "ok" carries access_token and expires_in; a generation response *)
(* whose body is "text" is an envelope that carries the raw model text.    *)
(* Responses that the code cannot tell apart are listed once.              *)
(***************************************************************************)
TokenReply(error, code, body, tk, e) ==
    [error |-> error, code |-> code, body |-> body, access_token |-> tk,
     expires_in |-> e]

TokenResponses ==
    { TokenReply(TRUE, 0, "", "", 0),
      TokenReply(FALSE, 401, "denied", "", 0),
      TokenReply(FALSE, 200, "garbage", "", 0),
      TokenReply(FALSE, 200, "noAccessToken", "", 60),
      TokenReply(FALSE, 200, "noExpiresIn", "tokA", 0) }
    \cup { TokenReply(FALSE, 200, "ok", tk, e) : tk \in Tokens, e \in ExpiresIn }

GenReply(error, code, body, text) ==
    [error |-> error, code |-> code, body |-> body, text |-> text]

GenFailures ==
    { GenReply(TRUE, 0, "", <<>>),
      GenReply(FALSE, 199, "denied", <<>>),
      GenReply(FALSE, 300, "denied", <<>>),
      GenReply(FALSE, 200, "garbage", <<>>),
      GenReply(FALSE, 200, "noText", <<>>) }

GenResponses ==
    GenFailures
    \cup { GenReply(FALSE, code, "text", text) : code \in {200, 299}, text \in GenTexts }

(***************************************************************************)
(* Initial state: main has loaded the credentials and either serves        *)
(* requests (app.run, multithreaded) or runs one query (--cli).            *)
(***************************************************************************)
NoExt == [kind |-> "none", obj |-> NullObj]

\* adjustWeight has not run yet.
Unset == [NullObj EXCEPT !.candidates = [type |-> "unset", s |-> <<>>]]

\* No request has reached the prompt composer, which has written nothing.
NoGear ==
    [via |-> "none", name |-> "", type |-> "", handedness |-> "",
     subtype |-> "", rarity |-> "", clothingPiece |-> "", description |-> ""]

PureIdle ==
    /\ raw = <<>>
    /\ ext = NoExt
    /\ wIn = NullObj
    /\ wOut = Unset
    /\ gearIn = NoGear
    /\ prompt = <<>>

PipelineInit ==
    /\ mode \in {"server", "cli"}
    /\ clock = 0
    /\ cached_token = ""
    /\ token_expiry = 0
    /\ token_mutex = 0
    /\ pc = [t \in Threads |-> "idle"]
    /\ route = [t \in Threads |-> "none"]
    /\ now = [t \in Threads |-> 0]
    /\ refreshed = [t \in Threads |-> FALSE]
    /\ callState = [t \in Threads |-> "fresh"]
    /\ entry = [t \in Threads |-> <<"", 0>>]
    /\ tokenPosts = [t \in Threads |-> 0]
    /\ genPosts = [t \in Threads |-> 0]
    /\ extractorRuns = [t \in Threads |-> 0]
    /\ adjusts = [t \in Threads |-> 0]
    /\ extracted = [t \in Threads |-> NullObj]
    /\ reply = [t \in Threads |-> NoReply]
    /\ requests = 0

Init == PipelineInit /\ PureIdle

cacheVars == <<cached_token, token_expiry>>
countVars == <<tokenPosts, genPosts, extractorRuns, adjusts>>
callVars == <<now, refreshed, callState, entry>>

(***************************************************************************)
(* An exception leaves the query function and reaches the catch block of   *)
(* the handler: the handler answers with the error.                        *)
(***************************************************************************)
Caught(t, e) ==
    /\ pc' = [pc EXCEPT ![t] = "done"]
    /\ reply' = [reply EXCEPT ![t] = ErrorReply(route[t], e)]

\* getAccessToken is left (by return or by exception): the lock_guard
\* releases token_mutex and the locals go out of scope.
LeaveCall(t) ==
    /\ token_mutex' = 0
    /\ now' = [now EXCEPT ![t] = 0]
    /\ refreshed' = [refreshed EXCEPT ![t] = FALSE]
    /\ callState' = [callState EXCEPT ![t] = "fresh"]
    /\ entry' = [entry EXCEPT ![t] = <<"", 0>>]

\* The clock advances.
Tick(d) ==
    /\ clock + d <= MaxClock
    /\ clock' = clock + d
    /\ UNCHANGED <<mode, cacheVars, token_mutex, pc, route, callVars,
                   countVars, extracted, reply, requests, pureVars>>

\* A handler starts: it parses the request body (routes that have one),
\* builds the prompt and calls getAccessToken, where it waits for the lock.
StartRequest(t, r, bodyOk) ==
    /\ pc[t] = "idle"
    /\ requests < MaxRequests
    /\ IF mode = "cli" THEN t = 1 /\ r = "cli" /\ requests = 0
                       ELSE r \in ServerRoutes
    /\ bodyOk \/ r \in BodyRoutes
    /\ requests' = requests + 1
    /\ route' = [route EXCEPT ![t] = r]
    /\ IF bodyOk
       THEN /\ pc' = [pc EXCEPT ![t] = "lock"]
            /\ callState' = [callState EXCEPT ![t] =
                   IF needsRefresh(cached_token, clock, token_expiry)
                   THEN "expired" ELSE "fresh"]
            /\ UNCHANGED reply
       ELSE /\ pc' = [pc EXCEPT ![t] = "done"]
            /\ reply' = [reply EXCEPT
                   ![t] = ErrorReply(r, Err("parse error", 0, ""))]
            /\ UNCHANGED callState
    /\ UNCHANGED <<mode, clock, cacheVars, token_mutex, now, refreshed, entry,
                   countVars, extracted, pureVars>>

\* getAccessToken without the lock_guard.
mutexFreeAlways == TRUE

\* token_mutex is free: the lock_guard constructor returns.
mutexFree == token_mutex = 0

\* getAccessToken lines 145-155: take token_mutex, read the clock, decide;
\* on the refresh branch build the JWT (makeJwt throws when adc lacks a
\* field or the key is invalid) and call refreshTokenWithJwt, whose first
\* statement issues the POST to the token endpoint.
Acquire(t, jwtOk) ==
    /\ pc[t] = "lock"
    /\ mutexFree
    /\ IF needsRefresh(cached_token, clock, token_expiry)
       THEN IF jwtOk
            THEN /\ token_mutex' = t
                 /\ now' = [now EXCEPT ![t] = clock]
                 /\ entry' = [entry EXCEPT ![t] = <<cached_token, token_expiry>>]
                 /\ refreshed' = [refreshed EXCEPT ![t] = TRUE]
                 /\ pc' = [pc EXCEPT ![t] = "refresh"]
                 /\ tokenPosts' = [tokenPosts EXCEPT ![t] = @ + 1]
                 /\ callState' = [u \in Threads |->
                        IF /\ u # t
                           /\ pc[u] = "lock"
                           /\ callState[u] = "expired"
                           /\ callState[t] # "fresh"
                        THEN "overlapped" ELSE callState[u]]
                 /\ UNCHANGED <<reply>>
            ELSE /\ Caught(t, Err("Invalid key", 0, ""))
                 /\ LeaveCall(t)
                 /\ UNCHANGED tokenPosts
       ELSE /\ jwtOk
            /\ token_mutex' = t
            /\ now' = [now EXCEPT ![t] = clock]
            /\ entry' = [entry EXCEPT ![t] = <<cached_token, token_expiry>>]
            /\ pc' = [pc EXCEPT ![t] = "ret"]
            /\ UNCHANGED <<refreshed, callState, tokenPosts, reply>>
    /\ UNCHANGED <<mode, clock, cacheVars, route, genPosts, extractorRuns,
                   adjusts, extracted, requests, pureVars>>

\* A failed refresh that leaves getAccessToken without unlocking.
RefreshFailedKeepsLock(t, e) ==
    /\ Caught(t, e)
    /\ now' = [now EXCEPT ![t] = 0]
    /\ refreshed' = [refreshed EXCEPT ![t] = FALSE]
    /\ callState' = [callState EXCEPT ![t] = "fresh"]
    /\ entry' = [entry EXCEPT ![t] = <<"", 0>>]
    /\ UNCHANGED <<token_mutex, cacheVars>>

\* A failed refresh that empties cached_token.
RefreshFailedClears(t, e) ==
    /\ Caught(t, e)
    /\ LeaveCall(t)
    /\ cached_token' = ""
    /\ UNCHANGED token_expiry

\* refreshTokenWithJwt throws (lines 135-140): nothing has been assigned to
\* cached_token or token_expiry, the lock_guard releases token_mutex and
\* the handler catches the exception.
RefreshFailed(t, e) ==
    /\ Caught(t, e)
    /\ LeaveCall(t)
    /\ UNCHANGED cacheVars

\* refreshTokenWithJwt lines 135-140 and getAccessToken lines 155-156: the
\* response of the token endpoint arrives.
TokenResponse(t, resp) ==
    /\ pc[t] = "refresh"
    /\ IF resp.error
       THEN RefreshFailed(t, Err("Token POST failed", 0, ""))
       ELSE IF ~tokenStatusOk(resp.code)
       THEN RefreshFailed(t, Err("HTTP", resp.code, resp.body))
       ELSE IF resp.body # "ok"
       THEN RefreshFailed(t, Err("json", 0, ""))
       ELSE /\ cached_token' = resp.access_token
            /\ token_expiry' = now[t] + resp.expires_in
            /\ pc' = [pc EXCEPT ![t] = "ret"]
            /\ UNCHANGED <<token_mutex, reply, callVars>>
    /\ UNCHANGED <<mode, clock, route, countVars, extracted, requests,
                   pureVars>>

\* getAccessToken lines 158-159: copy cached_token, release token_mutex;
\* the caller puts the copy in the Authorization header and issues the
\* generation POST (queryGemini lines 332-339, queryShopkeeper 441-449).
ReturnToken(t) ==
    /\ pc[t] = "ret"
    /\ LeaveCall(t)
    /\ genPosts' = [genPosts EXCEPT ![t] = @ + 1]
    /\ pc' = [pc EXCEPT ![t] = "gen"]
    /\ UNCHANGED <<mode, clock, cacheVars, route, tokenPosts, extractorRuns,
                   adjusts, extracted, reply, requests, pureVars>>

\* A failed generation call that is issued again.
GenFailedRetry(t, e) ==
    /\ genPosts[t] < 2
    /\ genPosts' = [genPosts EXCEPT ![t] = @ + 1]
    /\ UNCHANGED <<pc, reply>>

\* The generation call failed: the exception reaches the handler.
GenFailed(t, e) ==
    /\ Caught(t, e)
    /\ UNCHANGED genPosts

\* queryGemini lines 340-359 (queryShopkeeper 450-468) and the rest of the
\* handler: the response of the generation endpoint arrives, is classified,
\* the envelope is parsed, the extractor runs, and the handler answers.
GenResponse(t, resp) ==
    /\ pc[t] = "gen"
    /\ IF resp.error
       THEN /\ GenFailed(t, Err(transportWhat(route[t]), 0, ""))
            /\ UNCHANGED <<extractorRuns, adjusts, extracted>>
       ELSE IF ~genStatusOk(resp.code)
       THEN /\ GenFailed(t, Err(upstreamWhat(route[t]), resp.code, resp.body))
            /\ UNCHANGED <<extractorRuns, adjusts, extracted>>
       ELSE IF resp.body # "text"
       THEN /\ GenFailed(t, Err("json", 0, ""))
            /\ UNCHANGED <<extractorRuns, adjusts, extracted>>
       ELSE LET r == extract(resp.text)
            IN  /\ extractorRuns' = [extractorRuns EXCEPT ![t] = @ + 1]
                /\ IF r.kind = "error"
                   THEN /\ GenFailed(t, Err("json", 0, ""))
                        /\ UNCHANGED <<adjusts, extracted>>
                   ELSE /\ extracted' = [extracted EXCEPT ![t] = r.obj]
                        /\ pc' = [pc EXCEPT ![t] = "done"]
                                            /\ UNCHANGED genPosts
                        /\ IF callsAdjustWeight(route[t])
                           THEN /\ adjusts' = [adjusts EXCEPT ![t] = @ + 1]
                                /\ reply' = [reply EXCEPT ![t] =
                                       OkReply(route[t], adjustWeight(r.obj))]
                           ELSE /\ UNCHANGED adjusts
                                /\ reply' = [reply EXCEPT ![t] =
                                       OkReply(route[t], r.obj)]
    /\ UNCHANGED <<mode, clock, cacheVars, token_mutex, route, callVars,
                   tokenPosts, requests, pureVars>>

\* The response has been sent: the server thread is free for the next
\* request.  (In CLI mode the process has exited.)
Finish(t) ==
    /\ pc[t] = "done"
    /\ mode = "server"
    /\ pc' = [pc EXCEPT ![t] = "idle"]
    /\ route' = [route EXCEPT ![t] = "none"]
    /\ tokenPosts' = [tokenPosts EXCEPT ![t] = 0]
    /\ genPosts' = [genPosts EXCEPT ![t] = 0]
    /\ extractorRuns' = [extractorRuns EXCEPT ![t] = 0]
    /\ adjusts' = [adjusts EXCEPT ![t] = 0]
    /\ extracted' = [extracted EXCEPT ![t] = NullObj]
    /\ reply' = [reply EXCEPT ![t] = NoReply]
    /\ UNCHANGED <<mode, clock, cacheVars, token_mutex, callVars,
                   requests, pureVars>>

\* Concurrent requests: what the generation endpoint answers is kept to
\* one successful response and one transport failure.
ConcRoutes == {"gear", "shopkeeper"}
ConcGenResponses ==
    { GenReply(TRUE, 0, "", <<>>), GenReply(FALSE, 200, "text", <<"x">>) }

InitConc == Init /\ mode = "server"

Next ==
    \/ \E d \in Durations : Tick(d)
    \/ \E t \in Threads, r \in ConcRoutes, bodyOk \in BOOLEAN :
           StartRequest(t, r, bodyOk)
    \/ \E t \in Threads, jwtOk \in BOOLEAN : Acquire(t, jwtOk)
    \/ \E t \in Threads, resp \in TokenResponses : TokenResponse(t, resp)
    \/ \E t \in Threads : ReturnToken(t)
    \/ \E t \in Threads, resp \in ConcGenResponses : GenResponse(t, resp)
    \/ \E t \in Threads : Finish(t)

\* The server under concurrent requests.
Spec == InitConc /\ [][Next]_vars

(***************************************************************************)
(* Claims about the token cache, under Spec.                               *)
(***************************************************************************)

\* C1: at most one token refresh is in flight at any instant: no two
\* threads are between the start and the end of refreshTokenWithJwt, and a
\* thread inside the refresh owns token_mutex.
C1_OneRefreshInFlight ==
    /\ Cardinality({t \in Threads : pc[t] = "refresh"}) <= 1
    /\ \A t \in Threads : pc[t] \in {"refresh", "ret"} => token_mutex = t

\* A refresh is in flight while another caller is blocked on the lock.
C1_Witness ==
    \E t, u \in Threads : t # u /\ pc[t] = "refresh" /\ pc[u] = "lock"

\* C2 as stated: of the callers that call getAccessToken during an expired
\* state only one calls refreshTokenWithJwt: a caller that was blocked
\* while another one called it never calls it itself.
C2_ExactlyOneRefresh ==
    \A t \in Threads : pc[t] = "refresh" => callState[t] # "overlapped"

\* C2 as amended: a caller that was blocked during another caller's refresh
\* makes at most one refresh call of its own, and makes it exactly when the
\* cache it finds is still empty or inside the 60-second margin; otherwise
\* it returns the stored token and leaves the cache alone.
C2_RefreshAgainOnlyIfStillExpired ==
    \A t \in Threads :
        (callState[t] = "overlapped" /\ pc[t] \in {"refresh", "ret"}) =>
            /\ tokenPosts[t] <= 1
            /\ refreshed[t] <=> (entry[t][1] = "" \/ now[t] + 60 >= entry[t][2])
            /\ ~refreshed[t] =>
                   /\ tokenPosts[t] = 0
                   /\ <<cached_token, token_expiry>> = entry[t]

\* A caller that waited during a refresh returns the stored token.
C2_Witness ==
    \E t \in Threads :
        /\ pc[t] = "ret"
        /\ callState[t] = "overlapped"
        /\ ~refreshed[t]
        /\ cached_token # ""

\* C3 as stated: at every return of getAccessToken the token is valid for
\* at least 60 more seconds.
C3_SixtySecondsAtReturn ==
    \A t \in Threads : pc[t] = "ret" => token_expiry - clock >= 60

\* C3 as amended: a token returned from the cache had more than 60 seconds
\* left at the clock reading `now` of the call; a token returned after a
\* refresh expires at `now` plus the reported expires_in, whatever that is
\* and however long the refresh took.
C3_MarginAtClockReading ==
    \A t \in Threads :
        pc[t] = "ret" =>
            IF refreshed[t]
            THEN token_expiry - now[t] \in ExpiresIn
            ELSE cached_token # "" /\ token_expiry - now[t] > 60

\* A cached token is returned after the clock has moved past `now`.
C3_Witness ==
    \E t \in Threads : pc[t] = "ret" /\ ~refreshed[t] /\ clock > now[t]

\* C4: getAccessToken takes the refresh branch if and only if cached_token
\* is empty or now + 60 >= token_expiry; a call that does not refresh makes
\* no refresh call and leaves cached_token and token_expiry unchanged.
C4_RefreshIff ==
    [][\A t \in Threads :
          /\ (pc[t] = "lock" /\ pc'[t] # "lock") =>
                IF cached_token = "" \/ clock + 60 >= token_expiry
                THEN /\ pc'[t] \in {"refresh", "done"}
                     /\ pc'[t] = "refresh" => tokenPosts'[t] = tokenPosts[t] + 1
                ELSE /\ pc'[t] = "ret"
                     /\ ~refreshed'[t]
                     /\ tokenPosts'[t] = tokenPosts[t]
                     /\ cached_token' = cached_token
                     /\ token_expiry' = token_expiry
          /\ (pc[t] = "ret" /\ ~refreshed[t]) =>
                /\ tokenPosts'[t] = 0
                /\ cached_token' = cached_token
                /\ token_expiry' = token_expiry
      ]_vars

\* A refresh started with a non-empty token that expires exactly 60 seconds
\* after `now`.
C4_Witness ==
    \E t \in Threads :
        /\ pc[t] = "refresh"
        /\ entry[t][1] # ""
        /\ entry[t][2] = now[t] + 60

\* C5: when the refresh fails (makeJwt throws, or the token POST fails, has
\* a status other than 200 or a body without the two fields) the handler
\* gets an error and cached_token and token_expiry hold the values they had
\* when the call read them.
C5_FailedRefreshKeepsCache ==
    [][\A t \in Threads :
          /\ (pc[t] = "refresh" /\ pc'[t] = "done") =>
                /\ reply'[t].status = 500
                /\ reply'[t].error = "ProcessingFailed"
                /\ <<cached_token', token_expiry'>> = entry[t]
                /\ <<cached_token, token_expiry>> = entry[t]
          /\ (pc[t] = "lock" /\ pc'[t] = "done") =>
                /\ reply'[t].status = 500
                /\ reply'[t].error = "ProcessingFailed"
                /\ cached_token' = cached_token
                /\ token_expiry' = token_expiry
          /\ \A resp \in TokenResponses :
                (resp.body # "ok" /\ TokenResponse(t, resp)) => pc'[t] = "done"
      ]_vars

\* A refresh has failed and the token cached before it is still there.
C5_Witness ==
    \E t \in Threads :
        /\ pc[t] = "done"
        /\ reply[t].status = 500
        /\ tokenPosts[t] = 1
        /\ cached_token # ""

\* One request at a time, on every entry point (server routes and --cli),
\* with every response of both endpoints.
NextPipeline ==
    \/ \E d \in Durations : Tick(d)
    \/ \E t \in Threads, r \in ServerRoutes \cup {"cli"}, bodyOk \in BOOLEAN :
           /\ \A u \in Threads : pc[u] = "idle"
           /\ StartRequest(t, r, bodyOk)
    \/ \E t \in Threads, jwtOk \in BOOLEAN : Acquire(t, jwtOk)
    \/ \E t \in Threads, resp \in TokenResponses : TokenResponse(t, resp)
    \/ \E t \in Threads : ReturnToken(t)
    \/ \E t \in Threads, resp \in GenResponses : GenResponse(t, resp)
    \/ \E t \in Threads : Finish(t)

SpecPipeline == Init /\ [][NextPipeline]_vars

(***************************************************************************)
(* Claims about the generation pipeline, under SpecPipeline.               *)
(***************************************************************************)

\* The caller of route r receives an error: HTTP 500 with error
\* "ProcessingFailed" on the routes, exit code 2 in CLI mode.
IsErrorReply(r, rep) ==
    IF r = "cli" THEN rep.status = 2
                 ELSE rep.status = 500 /\ rep.error = "ProcessingFailed"

\* C6: a request issues at most one token POST and at most one generation
\* POST; a failed call is followed by no further outbound call of that
\* request and reaches the caller as an error.
C6_NoRetries ==
    [][\A t \in Threads :
          /\ tokenPosts'[t] <= 1
          /\ genPosts'[t] <= 1
          /\ \A resp \in TokenResponses :
                (resp.body # "ok" /\ TokenResponse(t, resp)) =>
                    /\ pc'[t] = "done"
                    /\ IsErrorReply(route[t], reply'[t])
                    /\ tokenPosts'[t] = tokenPosts[t]
                    /\ genPosts'[t] = 0
          /\ \A resp \in GenFailures :
                GenResponse(t, resp) =>
                    /\ pc'[t] = "done"
                    /\ IsErrorReply(route[t], reply'[t])
                    /\ tokenPosts'[t] = tokenPosts[t]
                    /\ genPosts'[t] = genPosts[t]
          /\ pc[t] = "done" =>
                /\ tokenPosts'[t] <= tokenPosts[t]
                /\ genPosts'[t] <= genPosts[t]
      ]_vars

\* A request whose refresh succeeded and whose generation call failed has
\* ended with one POST of each kind and an error for the caller.
C6_Witness ==
    \E t \in Threads :
        /\ pc[t] = "done"
        /\ tokenPosts[t] = 1
        /\ genPosts[t] = 1
        /\ reply[t].status = 500
        /\ reply[t].message.what = "Vertex AI HTTP"

\* C7: a transport failure of the generation POST fails the query without
\* running the extractor; a status outside 200..299 fails it with that
\* status code and the response body in the error; the extractor runs only
\* for a status in 200..299; a credential failure ends the request before
\* any generation POST.
C7_ResponseClassification ==
    [][\A t \in Threads :
          /\ \A resp \in GenResponses :
                GenResponse(t, resp) =>
                    /\ resp.error =>
                          /\ extractorRuns'[t] = extractorRuns[t]
                          /\ IsErrorReply(route[t], reply'[t])
                          /\ reply'[t].message.what = transportWhat(route[t])
                    /\ (~resp.error /\ resp.code \notin 200..299) =>
                          /\ extractorRuns'[t] = extractorRuns[t]
                          /\ IsErrorReply(route[t], reply'[t])
                          /\ reply'[t].message.code = resp.code
                          /\ reply'[t].message.text = resp.body
                    /\ extractorRuns'[t] # extractorRuns[t] =>
                          ~resp.error /\ resp.code \in 200..299
                    /\ (~resp.error /\ resp.code \in 200..299
                            /\ resp.body = "text") =>
                          extractorRuns'[t] = extractorRuns[t] + 1
          /\ (pc[t] \in {"lock", "refresh"} /\ pc'[t] = "done") =>
                /\ genPosts'[t] = 0
                /\ extractorRuns'[t] = 0
                /\ IsErrorReply(route[t], reply'[t])
      ]_vars

\* A generation POST answered with status 300 has failed with the status
\* and the body in the error, the extractor not run.
C7_Witness ==
    \E t \in Threads :
        /\ pc[t] = "done"
        /\ genPosts[t] = 1
        /\ extractorRuns[t] = 0
        /\ reply[t].message.code = 300
        /\ reply[t].message.text = "denied"

\* C8: on every entry point that returns a generated item (/api/gear,
\* /api/gear/random, --cli) a successful generation has had adjustWeight
\* applied exactly once to what the query returned, and the caller receives
\* the adjusted object.
C8_AdjustOnEveryEntryPoint ==
    \A t \in Threads :
        (/\ pc[t] = "done"
         /\ route[t] \in ItemRoutes
         /\ reply[t].status \in {0, 200}) =>
            /\ adjusts[t] = 1
            /\ reply[t].body = adjustWeight(extracted[t])

(***************************************************************************)
(* The extractor as a function of the raw model text, under SpecExtract.   *)
(***************************************************************************)
SeqsUpTo(S, n) == UNION { [1..k -> S] : k \in 0..n }

pipelineVars ==
    <<mode, clock, cached_token, token_expiry, token_mutex, pc, route, now,
      refreshed, callState, entry, tokenPosts, genPosts, extractorRuns,
      adjusts, extracted, reply, requests>>

InitExtract ==
    /\ PipelineInit
    /\ mode = "server"
    /\ raw \in SeqsUpTo(Alphabet, MaxTokens)
    /\ ext = NoExt
    /\ wIn = NullObj
    /\ wOut = Unset
    /\ gearIn = NoGear
    /\ prompt = <<>>

\* Step 5 runs on the raw text.
ApplyExtract ==
    /\ ext = NoExt
    /\ ext' = extract(raw)
    /\ UNCHANGED <<pipelineVars, raw, wIn, wOut, gearIn, prompt>>

SpecExtract == InitExtract /\ [][ApplyExtract]_vars

MaxOf(S) == CHOOSE x \in S : \A y \in S : y <= x
MinOf(S) == CHOOSE x \in S : \A y \in S : x <= y

\* C9: the extractor has three disjoint outcomes: with no "{", no "}" or
\* the last "}" not after the first "{" it returns the fallback payload
\* (the envelope) and does not throw; otherwise, when the text from the
\* first "{" to the last "}" parses, it returns the parsed object;
\* otherwise it throws and does not return the fallback.
C9_ThreeOutcomes ==
    ext # NoExt =>
        LET opens == {i \in 1..Len(raw) : raw[i] = "{"}
            closes == {i \in 1..Len(raw) : raw[i] = "}"}
            noPair == opens = {} \/ closes = {} \/ MaxOf(closes) <= MinOf(opens)
        IN  IF noPair
            THEN ext = [kind |-> "fallback", obj |-> Envelope(raw)]
            ELSE LET span == SubSeq(raw, MinOf(opens), MaxOf(closes))
                 IN  IF accepts(span)
                     THEN ext = [kind |-> "parsed", obj |-> parse(span)]
                     ELSE ext = [kind |-> "error", obj |-> NullObj]

\* A text whose first "{" and last "}" enclose prose and a second object:
\* the span does not parse and the extractor throws.
C9_Witness ==
    /\ ext.kind = "error"
    /\ \E i \in 1..Len(raw) : raw[i] = "x" /\ i > 1 /\ i < Len(raw)
    /\ raw[1] = "{"
    /\ raw[Len(raw)] = "}"

(***************************************************************************)
(* adjustWeight as a function of the object, under SpecWeight.             *)
(***************************************************************************)
Chars == {" ", "\t", "1", "2", "l"}

OneLb == <<"1", " ", "l", "b", ".">>
TwoLb == <<"2", " ", "l", "b", ".">>
TwoLbs == <<"2", " ", "l", "b", "s", ".">>
OneAndHalfLb == <<"1", " ", "1", "/", "2", " ", "l", "b", ".">>
OneAndHalfLbs == <<"1", " ", "1", "/", "2", " ", "l", "b", "s", ".">>

WeightValues ==
    {Absent, Num}
    \cup { Str(c) : c \in SeqsUpTo(Chars, MaxLen) }
    \cup { Str(OneLb), Str(TwoLb), Str(OneAndHalfLb) }

NameValues == {Absent, Str(TwoLb)}

InitWeight ==
    /\ PipelineInit
    /\ mode = "server"
    /\ raw = <<>>
    /\ ext = NoExt
    /\ wIn \in { [Weight |-> w, Name |-> n, candidates |-> Absent] :
                     w \in WeightValues, n \in NameValues }
    /\ wOut = Unset
    /\ gearIn = NoGear
    /\ prompt = <<>>

\* The handler calls adjustWeight(out).
ApplyAdjustWeight ==
    /\ wOut = Unset
    /\ wOut' = adjustWeight(wIn)
    /\ UNCHANGED <<pipelineVars, raw, ext, wIn, gearIn, prompt>>

SpecWeight == InitWeight /\ [][ApplyAdjustWeight]_vars

Preamble ==
    <<"You are a Dungeons & Dragons 5E gear generator.",
      "Produce ONLY a single JSON object (no extra text).">>

JewelryPreamble ==
    <<"You are a Dungeons & Dragons 5E jewelry crafter.",
      "Produce ONLY a single JSON object (no extra text).",
      "I want a piece of jewelry with these parameters:">>

WithParameters == " with these parameters:"
SchemaHeader == "Your JSON schema should be:"
WeaponSchema == "{Name, Category, Type, Rarity, Cost, DamageDice, DamageType, Weight, Properties, Description}"
ArmorPieceSchema == "{Name, Piece, Category, ArmorClass, Attunement, StealthDisadvantage, Weight, Cost, Properties, Description}"
ArmorItemSchema == "{Name, ItemType, Rarity, Category, Cost, ArmorClass, Attunement, Weight, Properties, Description}"
JewelrySchema == "{Name, Type, Rarity, Weight, Description}"
PopulateOnly == "Populate only the fields after those prefilled above."
PopulateAfter == "Populate fields after those prefilled above."

\* Labels of the prefilled fields.
CategoryLabel == "  Category: "
TypeLabel == "  Type: "
RarityLabel == "  Rarity: "
PieceLabel == "  Piece: "
ArmorClassLabel == "  Armor Class: "
AttunementLabel == "  Attunement: "
StealthLabel == "  Stealth Disadvantage: "
ClothingPieceLabel == "  ClothingPiece: "
DetailsLabel == "Additional Details: "
JewelryNameLabel == "* Name: "
JewelryTypeLabel == "* Type: "
JewelryRarityLabel == "* Rarity: "
JewelryDetailsLabel == "* Additional Details: "

\* The sentences of the closing Description instruction.
IncludeEnchantment ==
    "Description: include a short history, benefits, and an enchantment in 150 words or less, "
ScaleEnchantment ==
    "scale the enchantments appropriately according to rarity, "
CursesFromLegendary ==
    "only add curses to items of legendary rarity or greater, "
NoEnchantment ==
    "Description: include a short history and benefits in 150 words or less (do NOT include any enchantment). "
NoEnchantmentOrCurse ==
    "Description: include a short history and benefits in 150 words or less (do NOT include any enchantment or curse). "
GearClosing ==
    "most importantly: be original and imaginative. [...] You are encouraged to use 1/2 lb. measurements on light items."
JewelryClosing ==
    "most importantly: be original and imaginative, [...] Item weight should be a minimum of 1/2 lb."

allowEnchantmentAboveUncommon(rarity) == rarity \notin {"Common", "Uncommon"}

allowEnchantment(rarity) == rarity # "Common"

\* The closing instruction of a branch whose prohibition is `without`.
Description(rarity, without, closing) ==
    IF allowEnchantment(rarity)
    THEN <<IncludeEnchantment, ScaleEnchantment, CursesFromLegendary, closing>>
    ELSE <<without, closing>>

armorClass(subtype) == IF subtype = "Clothes" THEN "N/A" ELSE subtype

attunementHeavyShield(subtype) ==
    IF subtype \in {"Heavy", "Shield"} THEN "No" ELSE "Yes"

attunement(subtype) == IF subtype = "Clothes" THEN "No" ELSE "Yes"

stealthDisadvantage(subtype) ==
    IF subtype = "Heavy" \/ subtype = "Shield" THEN "Yes" ELSE "No"

Called(name) == IF name # "" THEN <<" called ", name>> ELSE <<>>

Optional(label, value) == IF value # "" THEN <<label, value>> ELSE <<>>

weaponPrompt(in) ==
    <<"I want a weapon">> \o Called(in.name)
    \o <<WithParameters,
         CategoryLabel, in.handedness,
         TypeLabel, in.subtype,
         RarityLabel, in.rarity>>
    \o Optional(DetailsLabel, in.description)
    \o <<SchemaHeader, WeaponSchema, PopulateOnly>>
    \o Description(in.rarity, NoEnchantment, GearClosing)

armorPrompt(in) ==
    <<"I want an armor/clothing item">> \o Called(in.name)
    \o <<WithParameters,
         CategoryLabel, in.subtype,
         PieceLabel, in.clothingPiece,
         ArmorClassLabel, armorClass(in.subtype),
         AttunementLabel, attunement(in.subtype),
         StealthLabel, stealthDisadvantage(in.subtype)>>
    \o <<SchemaHeader, ArmorPieceSchema>>
    \o Optional(ClothingPieceLabel, in.clothingPiece)
    \o Optional(DetailsLabel, in.description)
    \o <<SchemaHeader, ArmorItemSchema, PopulateAfter>>
    \o Description(in.rarity, NoEnchantmentOrCurse, GearClosing)

jewelryPrompt(in) ==
    JewelryPreamble
    \o <<JewelryNameLabel, in.name,
         JewelryTypeLabel, in.subtype,
         JewelryRarityLabel, in.rarity>>
    \o Optional(JewelryDetailsLabel, in.description)
    \o <<SchemaHeader, JewelrySchema, PopulateOnly>>
    \o Description(in.rarity, NoEnchantmentOrCurse, JewelryClosing)

composePrompt(in) ==
    Preamble \o
        IF in.type = "Weapon" THEN weaponPrompt(in)
        ELSE IF in.type = "Armor" THEN armorPrompt(in)
        ELSE jewelryPrompt(in)

(***************************************************************************)
(* The requests that reach the composer.  POST /api/gear and --cli pass    *)
(* whatever object the caller sent, a missing key reading as "";           *)
(* /api/gear/random builds the object itself.                              *)
(***************************************************************************)
rarities == {"Common", "Uncommon", "Rare", "Very Rare", "Legendary", "Artifact"}
types == {"Weapon", "Armor"}
hands == {"Single-Handed", "Two-Handed"}
armorClasses == {"Light", "Medium", "Heavy", "Shield", "Clothes"}
cloths == {"Helmet", "Chestplate", "Gauntlets", "Boots", "Cloak", "Hat"}

subs(hand) ==
    IF hand = "Single-Handed"
    THEN {"Club", "Dagger", "Flail", "Hand Crossbows", "Handaxe", "Javelin",
          "Light Hammer", "Mace", "Morningstar", "Rapier", "Scimitar",
          "Sickle", "Shortsword", "War pick"}
    ELSE {"Battleaxe", "Glaive", "Greataxe", "Greatsword", "Halberd",
          "Longsword", "Maul", "Pike", "Quarterstave", "Spears", "Trident",
          "Warhammer"}

RandomRequests ==
    { [NoGear EXCEPT !.via = "gearRandom", !.type = "Weapon", !.rarity = r,
                     !.handedness = h, !.subtype = st] :
          r \in rarities, h \in hands, st \in subs("Single-Handed") \cup subs("Two-Handed") }
    \cup
    { [NoGear EXCEPT !.via = "gearRandom", !.type = "Armor", !.rarity = r,
                     !.subtype = ac, !.clothingPiece = c] :
          r \in rarities, ac \in armorClasses, c \in cloths \cup {""} }

\* What /api/gear/random can build: the subtype list follows the hand, and
\* clothingPiece is set only when the armor class is not "Shield".
randomGear ==
    { in \in RandomRequests :
        /\ in.type = "Weapon" => in.subtype \in subs(in.handedness)
        /\ in.type = "Armor" => (in.clothingPiece # "" <=> in.subtype # "Shield") }

\* Text a caller may put in "description".
CursedDetails == "bears an ancient curse"
CallerDetails == {"", "forged by dwarves", CursedDetails}

\* Values a caller may put in "type", "rarity" and "subtype".
CallerTypes == {"Weapon", "Armor", "Jewelry", ""}
CallerRarities == rarities \cup {"common", ""}
CallerSubtypes == armorClasses \cup {"Greatsword", ""}

callerGear ==
    [via : {"gear", "cli"},
     name : {"", "Frostbrand"},
     type : CallerTypes,
     handedness : {"", "Two-Handed"},
     subtype : CallerSubtypes,
     rarity : CallerRarities,
     clothingPiece : {"", "Helmet"},
     description : CallerDetails]

InitPrompt ==
    /\ PipelineInit
    /\ mode = "server"
    /\ raw = <<>>
    /\ ext = NoExt
    /\ wIn = NullObj
    /\ wOut = Unset
    /\ gearIn \in callerGear \cup randomGear
    /\ prompt = <<>>

\* queryGemini builds the prompt from `in`.
ApplyCompose ==
    /\ prompt = <<>>
    /\ prompt' = composePrompt(gearIn)
    /\ UNCHANGED <<pipelineVars, raw, ext, wIn, wOut, gearIn>>

SpecPrompt == InitPrompt /\ [][ApplyCompose]_vars

Contains(p, f) == \E i \in 1..Len(p) : p[i] = f

\* The fragment written right after the first occurrence of a label.
ValueAfter(p, label) ==
    p[1 + (CHOOSE i \in 1..Len(p) : p[i] = label /\ \A j \in 1..(i - 1) : p[j] # label)]

\* The fragments whose text speaks of curses.
CurseMentions == {CursesFromLegendary, NoEnchantmentOrCurse, CursedDetails}

LegendaryOrHigher == {"Legendary", "Artifact"}

\* C11 as stated: for every category and every rarity, a prompt composed for
\* a rarity other than "Common" contains an enchantment instruction, a
\* prompt composed for "Common" does not, and a composed prompt never
\* mentions curses unless the rarity is "Legendary" or higher.
C11_CursesOnlyFromLegendary ==
    prompt # <<>> =>
        /\ Contains(prompt, IncludeEnchantment) <=> gearIn.rarity # "Common"
        /\ (\E f \in CurseMentions : Contains(prompt, f)) =>
               gearIn.rarity \in LegendaryOrHigher

\* C11 as amended: in every branch (Weapon, Armor, and the jewelry branch
\* taken for any other type) a prompt composed for a rarity other than
\* exactly "Common" ends with the instruction to include an enchantment,
\* to scale it to the rarity and to "only add curses to items of legendary
\* rarity or greater" - the same three sentences for Uncommon, Rare and
\* Very Rare as for Legendary and Artifact; a prompt composed for "Common"
\* has none of the three and instead forbids any enchantment (Weapon) or
\* any enchantment or curse (Armor, jewelry).  Text the caller supplied is
\* copied into the prompt whatever it speaks of.
C11_EnchantmentGate ==
    prompt # <<>> =>
        LET n == Len(prompt)
            literal == {prompt[i] : i \in 1..n} \ {gearIn.description}
            without == IF gearIn.type = "Weapon"
                       THEN NoEnchantment ELSE NoEnchantmentOrCurse
        IN  /\ gearIn.rarity # "Common" =>
                /\ SubSeq(prompt, n - 3, n - 1) =
                       <<IncludeEnchantment, ScaleEnchantment, CursesFromLegendary>>
                /\ literal \cap {NoEnchantment, NoEnchantmentOrCurse} = {}
                /\ literal \cap CurseMentions = {CursesFromLegendary}
            /\ gearIn.rarity = "Common" =>
                /\ prompt[n - 1] = without
                /\ literal \cap {IncludeEnchantment, ScaleEnchantment,
                                 CursesFromLegendary} = {}
                /\ literal \cap {NoEnchantment, NoEnchantmentOrCurse} = {without}
            /\ gearIn.description # "" => Contains(prompt, gearIn.description)

\* A Rare armor prompt carries the enchantment instruction and the sentence
\* about curses.
C11_Witness ==
    /\ gearIn.type = "Armor"
    /\ gearIn.rarity = "Rare"
    /\ Contains(prompt, IncludeEnchantment)
    /\ Contains(prompt, CursesFromLegendary)

\* C12 as stated: an Armor prompt prefills Attunement = No and Stealth
\* Disadvantage = Yes when the subtype is "Heavy" or "Shield", Attunement =
\* Yes and Stealth Disadvantage = No for every other subtype, and includes
\* the clothing-piece field exactly when the subtype is not "Shield".
C12_HeavyShieldPrefill ==
    (prompt # <<>> /\ gearIn.type = "Armor") =>
        /\ IF gearIn.subtype \in {"Heavy", "Shield"}
           THEN /\ ValueAfter(prompt, AttunementLabel) = "No"
                /\ ValueAfter(prompt, StealthLabel) = "Yes"
           ELSE /\ ValueAfter(prompt, AttunementLabel) = "Yes"
                /\ ValueAfter(prompt, StealthLabel) = "No"
        /\ Contains(prompt, ClothingPieceLabel) <=> gearIn.subtype # "Shield"

\* C12 as amended: an Armor prompt prefills Stealth Disadvantage = Yes
\* exactly when the subtype is "Heavy" or "Shield", and Attunement = No
\* exactly when the subtype is "Clothes" (so Heavy and Shield get
\* Attunement = Yes with Stealth Disadvantage = Yes, Clothes gets No and
\* No, anything else Yes and No); Armor Class is "N/A" for Clothes and the
\* subtype otherwise.  The "Piece:" line is always written, with the
\* clothingPiece of the request even when it is empty, and the
\* "ClothingPiece:" line is written exactly when clothingPiece is not
\* empty, whatever the subtype.  A request built by /api/gear/random has a
\* clothingPiece exactly when its subtype is not "Shield", so on that route
\* the "ClothingPiece:" line is written exactly for the other subtypes.
C12_ArmorPrefill ==
    (prompt # <<>> /\ gearIn.type = "Armor") =>
        /\ ValueAfter(prompt, AttunementLabel) = "No" <=> gearIn.subtype = "Clothes"
        /\ ValueAfter(prompt, AttunementLabel) = "Yes" <=> gearIn.subtype # "Clothes"
        /\ ValueAfter(prompt, StealthLabel) = "Yes" <=> gearIn.subtype \in {"Heavy", "Shield"}
        /\ ValueAfter(prompt, StealthLabel) = "No" <=> gearIn.subtype \notin {"Heavy", "Shield"}
        /\ ValueAfter(prompt, ArmorClassLabel) =
               IF gearIn.subtype = "Clothes" THEN "N/A" ELSE gearIn.subtype
        /\ Contains(prompt, PieceLabel)
        /\ ValueAfter(prompt, PieceLabel) = gearIn.clothingPiece
        /\ Contains(prompt, ClothingPieceLabel) <=> gearIn.clothingPiece # ""
        /\ Contains(prompt, ClothingPieceLabel) =>
               ValueAfter(prompt, ClothingPieceLabel) = gearIn.clothingPiece
        /\ gearIn.via = "gearRandom" =>
               (Contains(prompt, ClothingPieceLabel) <=> gearIn.subtype # "Shield")

\* A Heavy armor prompt with Attunement = Yes and Stealth Disadvantage = Yes,
\* and a clothing piece.
C12_Witness ==
    /\ gearIn.type = "Armor"
    /\ gearIn.subtype = "Heavy"
    /\ prompt # <<>>
    /\ ValueAfter(prompt, AttunementLabel) = "Yes"
    /\ ValueAfter(prompt, StealthLabel) = "Yes"
    /\ Contains(prompt, ClothingPieceLabel)

(***************************************************************************)
(* Termination of getAccessToken, under SpecFair: the server under         *)
(* concurrent requests on one route, with a token endpoint that answers    *)
(* every call and a lock that is granted fairly.                           *)
(***************************************************************************)
\* Every failure of the token endpoint, and one token with a short and a
\* long life.
FairTokenResponses ==
    { resp \in TokenResponses :
        resp.body = "ok" => (resp.access_token = "tokA" /\ resp.expires_in \in {30, 120}) }

FairGenResponses == { GenReply(FALSE, 200, "text", <<"x">>) }

NextFair ==
    \/ \E d \in Durations : Tick(d)
    \/ \E t \in Threads : StartRequest(t, "gear", TRUE)
    \/ \E t \in Threads, jwtOk \in BOOLEAN : Acquire(t, jwtOk)
    \/ \E t \in Threads, resp \in FairTokenResponses : TokenResponse(t, resp)
    \/ \E t \in Threads : ReturnToken(t)
    \/ \E t \in Threads, resp \in FairGenResponses : GenResponse(t, resp)
    \/ \E t \in Threads : Finish(t)

\* Every token-endpoint call ends, a thread that holds the token returns it,
\* and a thread that waits for token_mutex gets it if it is free again and
\* again.
Fairness ==
    \A t \in Threads :
        /\ SF_vars(\E jwtOk \in BOOLEAN : Acquire(t, jwtOk))
        /\ WF_vars(\E resp \in FairTokenResponses : TokenResponse(t, resp))
        /\ WF_vars(ReturnToken(t))

SpecFair == InitConc /\ [][NextFair]_vars /\ Fairness

InGetAccessToken(t) == pc[t] \in {"refresh", "ret"}

\* A getAccessToken call of t ends by exception.
CallFails(t) ==
    /\ pc[t] \in {"lock", "refresh"}
    /\ pc'[t] = "done"

\* C13: with a token endpoint that answers every call and a fair lock,
\* every getAccessToken call eventually returns a token (the caller goes on
\* to the generation POST) or fails (the handler answers with the error);
\* token_mutex is held only by a thread inside getAccessToken, and is free
\* right after the call ends, on the success path and on every failure
\* path; a failed refresh leaves a cache that still needs a refresh, it
\* keeps needing one until a token is stored, and a call that takes the
\* lock while it does attempts a refresh.
C13_EveryCallEnds ==
    /\ \A t \in Threads :
           (pc[t] = "lock") ~>
               \/ pc[t] = "gen"
               \/ pc[t] = "done" /\ reply[t].status = 500
    /\ [](token_mutex # 0 => InGetAccessToken(token_mutex))
    /\ [][\A t \in Threads :
             /\ (InGetAccessToken(t) /\ ~InGetAccessToken(t)') =>
                    /\ token_mutex = t
                    /\ token_mutex' = 0
             /\ CallFails(t) =>
                    /\ token_mutex' = 0
                    /\ cacheVars' = cacheVars
                    /\ needsRefresh(cached_token', clock', token_expiry')
             /\ (/\ needsRefresh(cached_token, clock, token_expiry)
                 /\ cacheVars' = cacheVars) =>
                    needsRefresh(cached_token', clock', token_expiry')
             /\ (/\ pc[t] = "lock"
                 /\ pc'[t] # "lock"
                 /\ needsRefresh(cached_token, clock, token_expiry)) =>
                    \/ pc'[t] = "refresh" /\ tokenPosts'[t] = tokenPosts[t] + 1
                    \/ pc'[t] = "done" /\ reply'[t].message.what = "Invalid key"
      ]_vars

\* A refresh of thread 1 has failed, thread 2, which was waiting, has the
\* lock and is attempting a new refresh.
C13_Witness ==
    /\ pc[1] = "done"
    /\ reply[1].status = 500
    /\ tokenPosts[1] = 1
    /\ pc[2] = "refresh"
    /\ token_mutex = 2
    /\ callState[2] = "overlapped"

====
